---------------------------- MODULE Spec2Model ----------------------------
(***************************************************************************)
(* Model of the interview backend (src/backend.py): the process-wide      *)
(* InterviewState and the four request handlers upload_resume,            *)
(* get_next_question, transcribe_audio and generate_feedback, together    *)
(* with the response-parsing helpers they call.                           *)
(*                                                                         *)
(* Texts that the code parses (model completions, questions) are          *)
(* sequences of one-character strings, so that json.loads, re.search,     *)
(* str.strip and str.endswith are computed character by character.        *)
(* Texts that the code only stores (resume text, transcripts) are opaque  *)
(* strings.                                                               *)
(*                                                                         *)
(* The alphabet of the parsed texts is letters, digits, space and the     *)
(* punctuation  { } " : , . ! ? _  There is no backslash, bracket, sign or  *)
(* JSON literal (true/false/null) in any text the model feeds to          *)
(* JsonLoads, so the JSON subset parsed below agrees with json.loads on   *)
(* every text of the model.                                               *)
(*                                                                         *)
(* Spec is the server with its four handlers.  SpecExtract runs           *)
(* extract_question_from_response and the suffix step on their own, on    *)
(* every short text over a small alphabet.  SpecClient is the server      *)
(* called by one browser session of src/app.py only, with every call to   *)
(* Groq, Deepgram and gTTS returning.  The JSON parser hands its          *)
(* intermediate results on as operator parameters; it agrees with         *)
(* json.loads on the texts of both specifications.                        *)
(***************************************************************************)
EXTENDS Integers, Sequences, FiniteSets, TLC

(***************************************************************************)
(* Program constants                                                       *)
(***************************************************************************)
\* get_next_question: "current_question >= 3", "total_questions": 3
TotalQuestions == 3

\* transcribe_audio: "if interview_state.current_question < 2"
LastAnswerIndex == 2

(***************************************************************************)
(* Bounds of the model                                                     *)
(***************************************************************************)
\* transcribe_audio appends to answers without limit; the model stops
\* accepting transcriptions once answers holds MaxAnswers entries.
MaxAnswers == 4

\* number of /transcribe/ requests that may be awaiting Deepgram at once
MaxInflight == 2

\* the longest text, over ExtractAlphabet, handed to the extraction on its own
MaxTextLen == 4

(***************************************************************************)
(* Characters and str methods                                              *)
(***************************************************************************)
Digits == {"0", "1", "2", "3", "4", "5", "6", "7", "8", "9"}

DigitValue(c) ==
    CASE c = "0" -> 0 [] c = "1" -> 1 [] c = "2" -> 2 [] c = "3" -> 3
      [] c = "4" -> 4 [] c = "5" -> 5 [] c = "6" -> 6 [] c = "7" -> 7
      [] c = "8" -> 8 [] c = "9" -> 9

IsSpace(c) == c = " "

RECURSIVE LStrip(_)
LStrip(t) ==
    IF t # <<>> /\ IsSpace(Head(t)) THEN LStrip(Tail(t)) ELSE t

RECURSIVE RStrip(_)
RStrip(t) ==
    IF t # <<>> /\ IsSpace(t[Len(t)]) THEN RStrip(SubSeq(t, 1, Len(t) - 1)) ELSE t

\* str.strip()
Strip(t) == RStrip(LStrip(t))

\* str.endswith('?')
EndsWithQMark(t) == t # <<>> /\ t[Len(t)] = "?"

\* str.find(c) as a 1-based position, 0 when absent (Python: -1)
RECURSIVE FindFrom(_, _, _)
FindFrom(t, c, i) ==
    IF i > Len(t) THEN 0
    ELSE IF t[i] = c THEN i
    ELSE FindFrom(t, c, i + 1)

Find(t, c) == FindFrom(t, c, 1)

\* str.rfind(c) as a 1-based position, 0 when absent (Python: -1)
RECURSIVE RFindFrom(_, _, _)
RFindFrom(t, c, i) ==
    IF i < 1 THEN 0
    ELSE IF t[i] = c THEN i
    ELSE RFindFrom(t, c, i - 1)

RFind(t, c) == RFindFrom(t, c, Len(t))

(***************************************************************************)
(* json.loads on the model's alphabet.  A JSON value is a record           *)
(*   [type, s, n, members]  with type "str" (s), "num" (n) or "obj"        *)
(* (members: the key/value pairs in textual order).                        *)
(***************************************************************************)
JStr(s) == [type |-> "str", s |-> s, n |-> 0, members |-> <<>>]

JNum(n) == [type |-> "num", s |-> <<>>, n |-> n, members |-> <<>>]

JObj(m) == [type |-> "obj", s |-> <<>>, n |-> 0, members |-> m]

JFail == [ok |-> FALSE, val |-> JNum(0), next |-> 0]

JOk(v, next) == [ok |-> TRUE, val |-> v, next |-> next]

RECURSIVE SkipWs(_, _)
SkipWs(t, i) ==
    IF i <= Len(t) /\ IsSpace(t[i]) THEN SkipWs(t, i + 1) ELSE i

\* a string literal starting at the quote t[i]
ParseString(t, i) ==
    LET j == FindFrom(t, "\"", i + 1)
    IN  IF j = 0 THEN JFail ELSE JOk(JStr(SubSeq(t, i + 1, j - 1)), j + 1)

RECURSIVE DigitRun(_, _, _)
DigitRun(t, i, acc) ==
    IF i <= Len(t) /\ t[i] \in Digits
    THEN DigitRun(t, i + 1, acc * 10 + DigitValue(t[i]))
    ELSE JOk(JNum(acc), i)

\* an integer literal starting at the digit t[i]: 0 | [1-9][0-9]*
ParseNumber(t, i) ==
    IF t[i] = "0" THEN JOk(JNum(0), i + 1) ELSE DigitRun(t, i, 0)

RECURSIVE ParseValue(_, _)
RECURSIVE ParseMembers(_, _, _)

\* after a member, m being the position of the next token
MemberNext(t, m, acc) ==
    IF m > Len(t) THEN JFail
    ELSE IF t[m] = "}" THEN JOk(JObj(acc), m + 1)
    ELSE IF t[m] = "," THEN ParseMembers(t, SkipWs(t, m + 1), acc)
    ELSE JFail

\* after the value v of the member with the given key
MemberValue(t, key, v, acc) ==
    IF ~v.ok THEN JFail
    ELSE MemberNext(t, SkipWs(t, v.next),
                    Append(acc, [key |-> key, value |-> v.val]))

\* after a key, c being the position of the next token
MemberColon(t, key, c, acc) ==
    IF c > Len(t) \/ t[c] # ":" THEN JFail
    ELSE MemberValue(t, key, ParseValue(t, SkipWs(t, c + 1)), acc)

\* after the string literal k that should be a key
MemberKey(t, k, acc) ==
    IF ~k.ok THEN JFail
    ELSE MemberColon(t, k.val.s, SkipWs(t, k.next), acc)

\* the members of an object, t[i] being the quote that opens the next key
ParseMembers(t, i, acc) ==
    IF i > Len(t) \/ t[i] # "\"" THEN JFail
    ELSE MemberKey(t, ParseString(t, i), acc)

\* an object starting at the brace t[i]
ParseObject(t, i) ==
    LET j == SkipWs(t, i + 1)
    IN  IF j > Len(t) THEN JFail
        ELSE IF t[j] = "}" THEN JOk(JObj(<<>>), j + 1)
        ELSE ParseMembers(t, j, <<>>)

ParseValue(t, i) ==
    IF i > Len(t) THEN JFail
    ELSE IF t[i] = "\"" THEN ParseString(t, i)
    ELSE IF t[i] = "{" THEN ParseObject(t, i)
    ELSE IF t[i] \in Digits THEN ParseNumber(t, i)
    ELSE JFail

\* a parsed value r is the whole text but for trailing white space
WholeText(t, r) ==
    IF ~r.ok THEN JFail
    ELSE IF SkipWs(t, r.next) <= Len(t) THEN JFail
    ELSE r

\* json.loads(t): ok = FALSE stands for json.JSONDecodeError
JsonLoads(t) == WholeText(t, ParseValue(t, SkipWs(t, 1)))

\* key in d, for a parsed object d
HasKey(d, key) == \E i \in 1..Len(d.members) : d.members[i].key = key

\* d[key], for a parsed object d that has the key (the last pair wins)
GetKey(d, key) ==
    LET last == CHOOSE i \in 1..Len(d.members) :
                    /\ d.members[i].key = key
                    /\ \A j \in (i + 1)..Len(d.members) : d.members[j].key # key
    IN  d.members[last].value

(***************************************************************************)
(* extract_question_from_response                                          *)
(***************************************************************************)
KeyQuestion == <<"q", "u", "e", "s", "t", "i", "o", "n">>

Terminators == {".", "!", "?"}

\* re.search(r'"([^"]+\?)"', t): the opening quotes i whose next quote j
\* closes a group t[i+1..j-1] of at least two characters ending in '?'
QuotedMatches(t) ==
    {i \in 1..Len(t) :
        /\ t[i] = "\""
        /\ LET j == FindFrom(t, "\"", i + 1)
           IN  j # 0 /\ j - i - 1 >= 2 /\ t[j - 1] = "?"}

\* the position of the first terminator at or after i, 0 when there is none
RECURSIVE RunEnd(_, _)
RunEnd(t, i) ==
    IF i > Len(t) THEN 0
    ELSE IF t[i] \in Terminators THEN i
    ELSE RunEnd(t, i + 1)

\* re.search(r'([^.!?]+\?)', t): the positions i that start a non-empty run
\* of non-terminators which is ended by '?'
SentenceMatches(t) ==
    {i \in 1..Len(t) :
        /\ t[i] \notin Terminators
        /\ LET k == RunEnd(t, i) IN k # 0 /\ t[k] = "?"}

\* re.search returns the leftmost match
Leftmost(S) == CHOOSE i \in S : \A j \in S : i <= j

JsonQuestionFound(t) ==
    LET r == JsonLoads(t)
    IN  r.ok /\ r.val.type = "obj" /\ HasKey(r.val, KeyQuestion)

\* the value returned: a JSON value, which is a str unless the "question"
\* field of a parsed object holds something else
extract_question_from_response(t) ==
    IF JsonQuestionFound(t) THEN GetKey(JsonLoads(t).val, KeyQuestion)
    ELSE IF QuotedMatches(t) # {}
         THEN LET i == Leftmost(QuotedMatches(t))
              IN  JStr(SubSeq(t, i + 1, FindFrom(t, "\"", i + 1) - 1))
    ELSE IF SentenceMatches(t) # {}
         THEN LET i == Leftmost(SentenceMatches(t))
              IN  JStr(Strip(SubSeq(t, i, RunEnd(t, i))))
    ELSE JStr(Strip(t))

\* variant of AddQMark: the suffix step is left out
AddQMark_left_out(q) == q

\* "if not q.endswith('?'): q += '?'"
AddQMark(q) == IF EndsWithQMark(q) THEN q ELSE Append(q, "?")

\* The question a handler derives from a completion's content: content.strip(),
\* extraction, suffix.  ok = FALSE when the steps raise (the extracted value is
\* not a str, so .endswith raises AttributeError).
QuestionFromCompletion(content) ==
    LET v == extract_question_from_response(Strip(content))
    IN  IF v.type = "str" THEN [ok |-> TRUE, question |-> AddQMark(v.s)]
        ELSE [ok |-> FALSE, question |-> <<>>]

(***************************************************************************)
(* generate_feedback: locating and checking the feedback object            *)
(***************************************************************************)
KeyScore == <<"s", "c", "o", "r", "e">>

RequiredKeys == {
    KeyScore,
    <<"t", "e", "c", "h", "n", "i", "c", "a", "l", "_", "f", "e", "e", "d", "b", "a", "c", "k">>,
    <<"c", "o", "m", "m", "u", "n", "i", "c", "a", "t", "i", "o", "n", "_", "f", "e", "e", "d", "b", "a", "c", "k">>,
    <<"i", "m", "p", "r", "o", "v", "e", "m", "e", "n", "t", "s">>}

\* The record parsed out of a completion's content; ok = FALSE when the steps
\* raise (no brace pair, json.JSONDecodeError, a required key missing).
FeedbackFromCompletion(content) ==
    LET t         == Strip(content)
        start_idx == Find(t, "{")
        end_idx   == RFind(t, "}")
        nothing   == [ok |-> FALSE, feedback |-> JObj(<<>>)]
    IN  IF start_idx # 0 /\ end_idx # 0
        THEN LET r == JsonLoads(SubSeq(t, start_idx, end_idx))
             IN  IF ~r.ok THEN nothing
                 ELSE IF \A key \in RequiredKeys : HasKey(r.val, key)
                      THEN [ok |-> TRUE, feedback |-> r.val]
                      ELSE nothing
        ELSE nothing

(***************************************************************************)
(* What the collaborators may hand to the handlers                         *)
(***************************************************************************)
\* uploaded files: the file name ends in .pdf or not; the content is empty,
\* not a PDF, a PDF whose text extraction raises, a PDF with blank text, or a
\* PDF with text
UploadFiles ==
    {[name_pdf |-> FALSE, kind |-> "text", text |-> "resume1"],
     [name_pdf |-> TRUE, kind |-> "empty", text |-> ""],
     [name_pdf |-> TRUE, kind |-> "corrupt", text |-> ""],
     [name_pdf |-> TRUE, kind |-> "unextractable", text |-> ""],
     [name_pdf |-> TRUE, kind |-> "blank", text |-> " "],
     [name_pdf |-> TRUE, kind |-> "text", text |-> "resume1"],
     [name_pdf |-> TRUE, kind |-> "text", text |-> "resume2"]}

\* audio uploads: with or without a file name, with or without bytes
AudioFiles == [has_name : BOOLEAN, has_data : BOOLEAN]

\* Deepgram: the call raises (or its response lacks the transcript path), or
\* it yields a transcript
Transcripts == {"answer1", "answer2"}

Transcriptions ==
    {[raised |-> TRUE, transcript |-> ""]}
      \cup {[raised |-> FALSE, transcript |-> a] : a \in Transcripts}

\* Completion contents of the question prompts
QuestionTexts == {
    <<"{", "\"", "q", "u", "e", "s", "t", "i", "o", "n", "\"", ":", "\"", "A", "?", "\"", "}">>,
    <<"B">>,
    <<"{", "\"", "q", "u", "e", "s", "t", "i", "o", "n", "\"", ":", "5", "}">>}

\* Completion contents of the feedback prompt
FeedbackTexts == {
    <<"S", "u", "r", "e", "!", " ", "{", "\"", "s", "c", "o", "r", "e", "\"", ":", " ", "7", "2", ",", " ", "\"", "t", "e", "c", "h", "n", "i", "c", "a", "l", "_", "f", "e", "e", "d", "b", "a", "c", "k", "\"", ":", " ", "\"", "o", "k", "\"", ",", " ", "\"", "c", "o", "m", "m", "u", "n", "i", "c", "a", "t", "i", "o", "n", "_", "f", "e", "e", "d", "b", "a", "c", "k", "\"", ":", " ", "\"", "f", "i", "n", "e", "\"", ",", " ", "\"", "i", "m", "p", "r", "o", "v", "e", "m", "e", "n", "t", "s", "\"", ":", " ", "\"", "m", "o", "r", "e", "\"", "}", " ", "T", "h", "a", "n", "k", "s", ".">>,
    <<"{", "\"", "s", "c", "o", "r", "e", "\"", ":", " ", "1", "5", "0", ",", " ", "\"", "t", "e", "c", "h", "n", "i", "c", "a", "l", "_", "f", "e", "e", "d", "b", "a", "c", "k", "\"", ":", " ", "\"", "o", "k", "\"", ",", " ", "\"", "c", "o", "m", "m", "u", "n", "i", "c", "a", "t", "i", "o", "n", "_", "f", "e", "e", "d", "b", "a", "c", "k", "\"", ":", " ", "\"", "f", "i", "n", "e", "\"", ",", " ", "\"", "i", "m", "p", "r", "o", "v", "e", "m", "e", "n", "t", "s", "\"", ":", " ", "\"", "m", "o", "r", "e", "\"", "}">>,
    <<"{", "\"", "s", "c", "o", "r", "e", "\"", ":", " ", "7", "2", "}">>,
    <<"n", "o", " ", "j", "s", "o", "n">>,
    <<"{", "o", "o", "p", "s", "}">>,
    <<"}", " ", "{">>}

\* The texts handed to extract_question_from_response on its own: every text
\* of at most MaxTextLen characters over ExtractAlphabet, and longer texts
\* with an object that has, or has not, a "question" field
ExtractAlphabet == {"a", " ", "?", ".", "\""}

LongTexts == {
    <<"{", "\"", "q", "u", "e", "s", "t", "i", "o", "n", "\"", ":", "\"", "A", "?", "\"", "}">>,
    <<"{", "\"", "q", "u", "e", "s", "t", "i", "o", "n", "\"", ":", "\"", "B", "\"", "}">>,
    <<"{", "\"", "q", "u", "e", "s", "t", "i", "o", "n", "\"", ":", "5", "}">>,
    <<"{", "\"", "q", "\"", ":", "\"", "A", "?", "\"", "}">>,
    <<"{", "\"", "q", "\"", ":", "\"", "A", "?", "\"", ",", "\"", "q", "u", "e", "s", "t", "i", "o", "n", "\"", ":", "\"", "B", "\"", "}">>,
    <<"{", "\"", "q", "u", "e", "s", "t", "i", "o", "n", "\"", ":", "\"", "A", "?", "\"", "}", " ", "\"", "B", "?", "\"">>,
    <<"Q", ":", " ", "\"", "A", " ", "b", "?", "\"", " ", "o", "k", ".">>,
    <<"A", " ", "b", ".", " ", "C", " ", "d", "?", " ", "E">>,
    <<"n", "o", ".", " ", "y", "e", "s", "?", " ", "\"", "x", "?", "\"">>}

ExtractTexts ==
    LongTexts \cup UNION {[1..n -> ExtractAlphabet] : n \in 0..MaxTextLen}

\* groq_client.chat.completions.create raises, or returns a content
Completions(texts) ==
    {[raised |-> TRUE, content |-> <<>>]}
      \cup {[raised |-> FALSE, content |-> c] : c \in texts}

\* what stands for the completion in a step that does not reach the call
NoCompletion == [raised |-> TRUE, content |-> <<>>]

\* the completions a step may meet: any of them when it reaches the call
CompletionsIf(called, texts) ==
    IF called THEN Completions(texts) ELSE {NoCompletion}

\* what the handlers derive from each completion content, computed once
QuestionOutcomes ==
    {[content |-> c, parsed |-> QuestionFromCompletion(c)] : c \in QuestionTexts}

FeedbackOutcomes ==
    {[content |-> c, parsed |-> FeedbackFromCompletion(c)] : c \in FeedbackTexts}

QuestionOf(c) == (CHOOSE o \in QuestionOutcomes : o.content = c).parsed

FeedbackOf(c) == (CHOOSE o \in FeedbackOutcomes : o.content = c).parsed

\* gTTS: renders the audio or raises
TtsOutcomes == {"ok", "raised"}

(***************************************************************************)
(* State                                                                   *)
(***************************************************************************)
VARIABLES
    questions,             \* interview_state.questions
    answers,               \* interview_state.answers
    current_question,      \* interview_state.current_question
    resume_text,           \* interview_state.resume_text
    conversation_history,  \* interview_state.conversation_history
    inflight,              \* the number of /transcribe/ requests suspended at
                           \* "await dg_client.transcription.prerecorded(...)"
    answered_to,           \* history variable: for each entry of answers, the
                           \* index /next-question/ was serving when the
                           \* entry was recorded (-1: none)
    response,              \* the outcome of the latest handler step
    stale,                 \* history variable: how many of the suspended
                           \* requests were posted before the latest reset of
                           \* the session by upload_resume
    residue,               \* history variable: answers holds a transcript
                           \* whose request was posted before the latest reset
    started,               \* history variable: upload_resume has succeeded at
                           \* least once since the process started
    extraction,            \* the text, the stage and the value of a run of
                           \* extract_question_from_response on its own
    ui                     \* the Streamlit client of app.py: the flags of
                           \* st.session_state and the position of its script

vars == <<questions, answers, current_question, resume_text,
          conversation_history, inflight, answered_to, response,
          stale, residue, started, extraction, ui>>

\* the variables that only record history
history_vars == <<answered_to, stale, residue, started>>

\* the five fields of InterviewState
Session ==
    [resume_text |-> resume_text,
     conversation_history |-> conversation_history,
     questions |-> questions,
     answers |-> answers,
     current_question |-> current_question]

SetSession(st) ==
    /\ resume_text' = st.resume_text
    /\ conversation_history' = st.conversation_history
    /\ questions' = st.questions
    /\ answers' = st.answers
    /\ current_question' = st.current_question

\* InterviewState.__init__
NewInterviewState ==
    [resume_text |-> "",
     conversation_history |-> <<>>,
     questions |-> <<>>,
     answers |-> <<>>,
     current_question |-> 0]

Turn(role, content) == [role |-> role, content |-> content]

\* A handler's outcome: the HTTP status (0: the request is suspended and has
\* not answered yet), whether groq_client was called, what raised ("" when
\* nothing did: "input" a check of the request, "state" the check for
\* questions, "index" the IndexError of questions[current_question], "tts"
\* gTTS, "transcription" the Deepgram call, "pairing" the IndexError of the
\* question/answer pairing, "completion" the completion call or the
\* processing of its content), and the body fields.
Outcome(op, status, llm, cause) ==
    [op |-> op, status |-> status, llm |-> llm, cause |-> cause,
     question |-> <<>>,
     question_number |-> 0, total_questions |-> 0, completed |-> FALSE,
     transcript |-> "", feedback |-> JObj(<<>>)]

\* the index whose question GET /next-question/ returns in state st, -1 when
\* it returns an error or the completion signal
ServedIndex(st) ==
    IF st.questions # <<>> /\ st.current_question < TotalQuestions
         /\ st.current_question < Len(st.questions)
    THEN st.current_question
    ELSE 0 - 1

\* no run of the extraction on its own is in progress
NoExtraction == [stage |-> "none", raw |-> <<>>, value |-> JStr(<<>>)]

\* app.py lines 32-37: st.session_state of a new browser session; pc is
\* "idle" between script runs, "asked" in a run that shows a question,
\* "posted" while requests.post to /transcribe/ is waiting
NewClient ==
    [interview_started |-> FALSE, interview_completed |-> FALSE, pc |-> "idle"]

Init ==
    /\ resume_text = NewInterviewState.resume_text
    /\ conversation_history = NewInterviewState.conversation_history
    /\ questions = NewInterviewState.questions
    /\ answers = NewInterviewState.answers
    /\ current_question = NewInterviewState.current_question
    /\ inflight = 0
    /\ answered_to = <<>>
    /\ response = Outcome("none", 0, FALSE, "")
    /\ stale = 0
    /\ residue = FALSE
    /\ started = FALSE
    /\ extraction = NoExtraction
    /\ ui = NewClient

(***************************************************************************)
(* POST /upload-resume/                                                    *)
(***************************************************************************)
\* the checks made before the session is touched
UploadRejected(file) == ~file.name_pdf \/ file.kind # "text"

\* variant of ResetSession: answers is not cleared
ResetSession_keeps_answers(st, text) ==
    [resume_text |-> text,
     conversation_history |-> <<>>,
     questions |-> <<>>,
     answers |-> st.answers,
     current_question |-> 0]

\* "interview_state.resume_text = text" ... "current_question = 0"
ResetSession(st, text) ==
    [resume_text |-> text,
     conversation_history |-> <<>>,
     questions |-> <<>>,
     answers |-> <<>>,
     current_question |-> 0]

\* the appends that record a generated question
RecordQuestion(st, q) ==
    [st EXCEPT !.questions = Append(@, q),
               !.conversation_history = Append(@, Turn("assistant", q))]

\* the session and the outcome upload_resume leaves, given the file and what
\* the completion call does
UploadResult(st, file, llm) ==
    IF UploadRejected(file)
    THEN [session |-> st, response |-> Outcome("upload", 400, FALSE, "input")]
    ELSE
      LET reset == ResetSession(st, file.text)
          q     == IF llm.raised THEN [ok |-> FALSE, question |-> <<>>]
                   ELSE QuestionOf(llm.content)
      IN  IF llm.raised \/ ~q.ok
          THEN [session |-> reset, response |-> Outcome("upload", 500, TRUE, "completion")]
          ELSE [session |-> RecordQuestion(reset, q.question),
                response |-> [Outcome("upload", 200, TRUE, "")
                                 EXCEPT !.question = q.question]]

upload_resume(file, llm) ==
    LET r == UploadResult(Session, file, llm)
    IN  /\ SetSession(r.session)
        /\ answered_to' = IF UploadRejected(file) THEN answered_to ELSE <<>>
        /\ stale' = IF UploadRejected(file) THEN stale ELSE inflight
        /\ residue' = IF UploadRejected(file) THEN residue ELSE FALSE
        /\ started' = (started \/ r.response.status = 200)
        /\ response' = r.response
        /\ UNCHANGED <<inflight, extraction>>

(***************************************************************************)
(* GET /next-question/                                                     *)
(***************************************************************************)
\* "if interview_state.current_question >= 3"
InterviewCompleted(st) == st.current_question >= TotalQuestions

\* variant of ServedQuestion: the first question is served whatever the index
ServedQuestion_first(st) == st.questions[1]

\* "interview_state.questions[interview_state.current_question]"
ServedQuestion(st) == st.questions[st.current_question + 1]

\* variant of NextQuestionResult: the test for an empty questions list is
\* left out and completion is "current_question >= len(questions)"
NextQuestionResult_by_length(st, tts) ==
    IF st.current_question >= Len(st.questions)
    THEN [Outcome("next", 200, FALSE, "") EXCEPT !.completed = TRUE]
    ELSE IF tts = "raised" THEN Outcome("next", 500, FALSE, "tts")
    ELSE [Outcome("next", 200, FALSE, "")
             EXCEPT !.question = ServedQuestion(st),
                    !.question_number = st.current_question + 1,
                    !.total_questions = TotalQuestions]

\* the outcome of get_next_question in state st, given what gTTS does; the
\* handler assigns no field of the session
NextQuestionResult(st, tts) ==
    IF st.questions = <<>> THEN Outcome("next", 500, FALSE, "state")
    ELSE IF InterviewCompleted(st)
         THEN [Outcome("next", 200, FALSE, "") EXCEPT !.completed = TRUE]
    ELSE IF st.current_question >= Len(st.questions)
         THEN Outcome("next", 500, FALSE, "index")
    ELSE IF tts = "raised" THEN Outcome("next", 500, FALSE, "tts")
    ELSE [Outcome("next", 200, FALSE, "")
             EXCEPT !.question = ServedQuestion(st),
                    !.question_number = st.current_question + 1,
                    !.total_questions = TotalQuestions]

get_next_question(tts) ==
    /\ response' = NextQuestionResult(Session, tts)
    /\ UNCHANGED <<questions, answers, current_question, resume_text,
                   conversation_history, inflight, history_vars, extraction>>

(***************************************************************************)
(* POST /transcribe/                                                       *)
(***************************************************************************)
\* the checks made before the Deepgram call
AudioRejected(file) == ~file.has_name \/ ~file.has_data

\* variant of RecordAnswer: the transcript is written over the latest answer,
\* as a handler would that computed its slot before another one appended
RecordAnswer_over_latest(st, transcript) ==
    [st EXCEPT !.answers = IF @ = <<>> THEN <<transcript>>
                           ELSE [@ EXCEPT ![Len(@)] = transcript],
               !.conversation_history = Append(@, Turn("user", transcript))]

\* the appends that record a transcript
RecordAnswer(st, transcript) ==
    [st EXCEPT !.answers = Append(@, transcript),
               !.conversation_history = Append(@, Turn("user", transcript))]

\* variant of NeedsFollowUp: a follow-up is generated after the last answer
\* as well
NeedsFollowUp_after_last(st) == st.current_question <= LastAnswerIndex

\* "if interview_state.current_question < 2"
NeedsFollowUp(st) == st.current_question < LastAnswerIndex

\* variant of PairingRaises: a missing question is passed over
PairingRaises_never(st) == FALSE

\* "interview_state.questions[i] ... for i in range(len(interview_state.answers))"
\* raises IndexError when answers is the longer list
PairingRaises(st) == Len(st.answers) > Len(st.questions)

\* variant of AdvanceIndex: the index is advanced by two
AdvanceIndex_by_two(st) == [st EXCEPT !.current_question = @ + 2]

\* "interview_state.current_question += 1"
AdvanceIndex(st) == [st EXCEPT !.current_question = @ + 1]

\* the session and the outcome of the part of transcribe_audio that follows
\* a transcription (the spec's submitAnswer), given what the completion call
\* does
SubmitAnswerResult(st, transcript, llm) ==
    LET recorded == RecordAnswer(st, transcript)
        done     == [Outcome("transcribe", 200, FALSE, "") EXCEPT !.transcript = transcript]
        q        == IF llm.raised THEN [ok |-> FALSE, question |-> <<>>]
                   ELSE QuestionOf(llm.content)
    IN  IF NeedsFollowUp(recorded)
        THEN IF PairingRaises(recorded)
             THEN [session |-> recorded,
                   response |-> Outcome("transcribe", 500, FALSE, "pairing")]
             ELSE IF llm.raised \/ ~q.ok
             THEN [session |-> recorded,
                   response |-> Outcome("transcribe", 500, TRUE, "completion")]
             ELSE [session |-> AdvanceIndex(RecordQuestion(recorded, q.question)),
                   response |-> [done EXCEPT !.llm = TRUE]]
        ELSE [session |-> AdvanceIndex(recorded), response |-> done]

\* transcribe_audio up to its suspension at the Deepgram call
transcribe_audio_begin(file) ==
    /\ inflight < MaxInflight
    /\ Len(answers) + inflight < MaxAnswers
    /\ IF AudioRejected(file)
       THEN /\ response' = Outcome("transcribe", 500, FALSE, "input")
            /\ UNCHANGED inflight
       ELSE /\ response' = Outcome("transcribe", 0, FALSE, "")
            /\ inflight' = inflight + 1
    /\ UNCHANGED <<questions, answers, current_question, resume_text,
                   conversation_history, history_vars, extraction>>

\* transcribe_audio from the return of the Deepgram call to its response, for
\* a suspended request posted before (old) or after the latest reset
transcribe_audio_resume(old, dg, llm) ==
    /\ IF old THEN stale > 0 ELSE inflight - stale > 0
    /\ inflight' = inflight - 1
    /\ stale' = IF old THEN stale - 1 ELSE stale
    /\ UNCHANGED <<started, extraction>>
    /\ IF dg.raised
       THEN /\ response' = Outcome("transcribe", 500, FALSE, "transcription")
            /\ UNCHANGED <<questions, answers, current_question, resume_text,
                           conversation_history, answered_to, residue>>
       ELSE LET r == SubmitAnswerResult(Session, dg.transcript, llm)
            IN  /\ SetSession(r.session)
                /\ answered_to' = Append(answered_to, ServedIndex(Session))
                /\ residue' = (residue \/ old)
                /\ response' = r.response

(***************************************************************************)
(* GET /generate-feedback/                                                 *)
(***************************************************************************)
\* variant of NoAnswers: the check is left out
NoAnswers_left_out(st) == FALSE

\* "if len(interview_state.answers) == 0"
NoAnswers(st) == Len(st.answers) = 0

\* the outcome of generate_feedback in state st, given what the completion
\* call does; the handler assigns no field of the session
FeedbackResult(st, llm) ==
    LET f == IF llm.raised THEN [ok |-> FALSE, feedback |-> JObj(<<>>)]
             ELSE FeedbackOf(llm.content)
    IN  IF NoAnswers(st) THEN Outcome("feedback", 500, FALSE, "state")
        ELSE IF PairingRaises(st) THEN Outcome("feedback", 500, FALSE, "pairing")
        ELSE IF llm.raised \/ ~f.ok THEN Outcome("feedback", 500, TRUE, "completion")
        ELSE [Outcome("feedback", 200, TRUE, "") EXCEPT !.feedback = f.feedback]

generate_feedback(llm) ==
    /\ response' = FeedbackResult(Session, llm)
    /\ UNCHANGED <<questions, answers, current_question, resume_text,
                   conversation_history, inflight, history_vars, extraction>>

(***************************************************************************)
(* Specification                                                           *)
(***************************************************************************)
Next ==
    \/ \E file \in UploadFiles :
          \E llm \in CompletionsIf(~UploadRejected(file), QuestionTexts) :
              upload_resume(file, llm) /\ UNCHANGED ui
    \/ \E tts \in TtsOutcomes : get_next_question(tts) /\ UNCHANGED ui
    \/ \E file \in AudioFiles : transcribe_audio_begin(file) /\ UNCHANGED ui
    \/ \E old \in BOOLEAN, dg \in Transcriptions :
          \E llm \in CompletionsIf(~dg.raised, QuestionTexts) :
              transcribe_audio_resume(old, dg, llm) /\ UNCHANGED ui
    \/ \E llm \in CompletionsIf(~NoAnswers(Session) /\ ~PairingRaises(Session),
                                FeedbackTexts) :
          generate_feedback(llm) /\ UNCHANGED ui

Spec == Init /\ [][Next]_vars

(***************************************************************************)
(* extract_question_from_response and the suffix step on their own         *)
(***************************************************************************)
\* a text is about to be handed to extract_question_from_response
InitExtract ==
    /\ resume_text = NewInterviewState.resume_text
    /\ conversation_history = NewInterviewState.conversation_history
    /\ questions = NewInterviewState.questions
    /\ answers = NewInterviewState.answers
    /\ current_question = NewInterviewState.current_question
    /\ inflight = 0
    /\ answered_to = <<>>
    /\ response = Outcome("none", 0, FALSE, "")
    /\ stale = 0
    /\ residue = FALSE
    /\ started = FALSE
    /\ extraction \in {[stage |-> "raw", raw |-> t, value |-> JStr(<<>>)] :
                          t \in ExtractTexts}
    /\ ui = NewClient

\* "first_question = extract_question_from_response(response_content)"
Extract ==
    /\ extraction.stage = "raw"
    /\ extraction' = [extraction EXCEPT
                          !.stage = "extracted",
                          !.value = extract_question_from_response(extraction.raw)]
    /\ UNCHANGED <<questions, answers, current_question, resume_text,
                   conversation_history, inflight, response, history_vars,
                   ui>>

\* "if not first_question.endswith('?'): first_question += '?'"; endswith
\* raises AttributeError when the value is not a str
Suffix ==
    /\ extraction.stage = "extracted"
    /\ extraction' =
          IF extraction.value.type = "str"
          THEN [extraction EXCEPT !.stage = "suffixed",
                                  !.value = JStr(AddQMark(extraction.value.s))]
          ELSE [extraction EXCEPT !.stage = "raised"]
    /\ UNCHANGED <<questions, answers, current_question, resume_text,
                   conversation_history, inflight, response, history_vars,
                   ui>>

NextExtract == Extract \/ Suffix

SpecExtract == InitExtract /\ [][NextExtract]_vars

(***************************************************************************)
(* One Streamlit client (src/app.py) as the only caller of the server,     *)
(* while no collaborator call fails                                        *)
(***************************************************************************)
\* the completions of a call that returns
Returned(texts) == {c \in Completions(texts) : ~c.raised}

\* the files st.file_uploader(type=['pdf']) lets through and whose text
\* extraction does not raise
ClientFiles == {f \in UploadFiles : f.name_pdf /\ f.kind \in {"empty", "blank", "text"}}

\* app.py lines 43-68: "Start Interview"
ClientUpload(file, llm) ==
    /\ ~ui.interview_started
    /\ upload_resume(file, llm)
    /\ ui' = [ui EXCEPT !.interview_started = (response'.status = 200)]

\* app.py lines 70-96: a script run of an interview in progress starts with
\* GET /next-question/
ClientNext(tts) ==
    /\ ui.interview_started
    /\ ~ui.interview_completed
    /\ ui.pc # "posted"
    /\ get_next_question(tts)
    /\ ui' = IF response'.status # 200 THEN [ui EXCEPT !.pc = "idle"]
             ELSE IF response'.completed
                  THEN [ui EXCEPT !.interview_completed = TRUE, !.pc = "idle"]
             ELSE [ui EXCEPT !.pc = "asked"]

\* app.py lines 98-105: "Submit Answer" in the run that shows the question
ClientSubmit ==
    /\ ui.pc = "asked"
    /\ transcribe_audio_begin([has_name |-> TRUE, has_data |-> TRUE])
    /\ ui' = [ui EXCEPT !.pc = "posted"]

\* app.py lines 105-117: requests.post returns and the run ends
ClientSubmitReturns(dg, llm) ==
    /\ ui.pc = "posted"
    /\ transcribe_audio_resume(FALSE, dg, llm)
    /\ ui' = [ui EXCEPT !.pc = "idle"]

\* app.py lines 121-147: "Generate Feedback"
ClientFeedback(llm) ==
    /\ ui.interview_started
    /\ ui.interview_completed
    /\ generate_feedback(llm)
    /\ UNCHANGED ui

\* app.py lines 149-153: "Start New Interview"
ClientRestart ==
    /\ ui.interview_started
    /\ ui.interview_completed
    /\ ui' = NewClient
    /\ UNCHANGED <<questions, answers, current_question, resume_text,
                   conversation_history, inflight, response, history_vars,
                   extraction>>

NextClient ==
    \/ \E file \in ClientFiles :
          \E llm \in IF UploadRejected(file) THEN {NoCompletion}
                     ELSE Returned(QuestionTexts) :
              ClientUpload(file, llm)
    \/ ClientNext("ok")
    \/ ClientSubmit
    \/ \E dg \in {d \in Transcriptions : ~d.raised} :
          \E llm \in Returned(QuestionTexts) : ClientSubmitReturns(dg, llm)
    \/ \E llm \in IF NoAnswers(Session) \/ PairingRaises(Session)
                   THEN {NoCompletion} ELSE Returned(FeedbackTexts) :
          ClientFeedback(llm)
    \/ ClientRestart

SpecClient == Init /\ [][NextClient]_vars

(***************************************************************************)
(* Properties                                                              *)
(***************************************************************************)
\* The step just taken is one in which transcribe_audio obtained a transcript
\* and went on to record it (the spec's submitAnswer was called).
SubmitAnswerCalled ==
    /\ response'.op = "transcribe"
    /\ response'.status # 0
    /\ response'.cause \notin {"input", "transcription"}

\* The step just taken is a handler reporting failure.
FailureReported == response'.status \notin {0, 200}

\* C1: in every reachable state len(answers) <= len(questions) <=
\* current_question + 1.
C1_LengthOrdering ==
    /\ Len(answers) <= Len(questions)
    /\ Len(questions) <= current_question + 1

\* C2: every submitAnswer call of a started session increments
\* current_question by exactly 1 and appends exactly one entry to answers,
\* whether or not the follow-up question generation succeeds.
C2_SubmitAlwaysAdvances ==
    [][(SubmitAnswerCalled /\ questions # <<>>) =>
          /\ current_question' = current_question + 1
          /\ Len(answers') = Len(answers) + 1]_vars

\* C3: in every reachable state 0 <= current_question <= 3, and at most 3
\* question/answer rounds (a question together with its answer) are recorded.
C3_IndexClamped ==
    /\ current_question >= 0
    /\ current_question <= TotalQuestions
    /\ \A i \in 1..Len(questions) : i <= Len(answers) => i <= TotalQuestions

\* C4: once 3 submitAnswer calls have been made in a started session,
\* get_next_question answers with the completion signal, and questions never
\* holds more than 3 entries.
C4_ThreeSubmitsComplete ==
    /\ (response.op = "next" /\ questions # <<>> /\ Len(answers) = TotalQuestions)
          => (response.status = 200 /\ response.completed)
    /\ Len(questions) <= TotalQuestions

\* C5: right after a successful upload_resume the session holds the new first
\* question only: questions is that one question, answers is empty,
\* conversation_history is that one assistant turn and current_question is 0.
C5_StartDiscardsPrior ==
    (response.op = "upload" /\ response.status = 200) =>
        /\ questions = <<response.question>>
        /\ answers = <<>>
        /\ conversation_history = <<Turn("assistant", response.question)>>
        /\ current_question = 0

\* a successful upload_resume has just replaced a session, while a request
\* posted before it is still awaiting its transcription
C5_Witness ==
    /\ response.op = "upload"
    /\ response.status = 200
    /\ resume_text = "resume2"
    /\ inflight > 0

\* C6: a handler that reports failure leaves the five session fields as they
\* were, except that a failing submitAnswer may have appended its one
\* transcript to answers and conversation_history.
C6_FailureKeepsSession ==
    [][FailureReported =>
          IF SubmitAnswerCalled
          THEN /\ UNCHANGED <<questions, current_question, resume_text>>
               /\ \/ UNCHANGED <<answers, conversation_history>>
                  \/ \E a \in Transcripts :
                        /\ answers' = Append(answers, a)
                        /\ conversation_history' =
                              Append(conversation_history, Turn("user", a))
          ELSE UNCHANGED <<questions, answers, current_question, resume_text,
                           conversation_history>>]_vars

\* C7: a successful upload_resume leaves exactly one entry in questions and
\* one in conversation_history, the assistant turn of that same question; the
\* question returned is that entry and ends with '?'.
C7_StartYieldsOneQuestion ==
    (response.op = "upload" /\ response.status = 200) =>
        /\ Len(questions) = 1
        /\ Len(conversation_history) = 1
        /\ conversation_history[1].role = "assistant"
        /\ conversation_history[1].content = questions[1]
        /\ response.question = questions[1]
        /\ EndsWithQMark(response.question)

\* a successful upload_resume whose completion had no question mark
C7_Witness ==
    /\ response.op = "upload"
    /\ response.status = 200
    /\ response.question = <<"B", "?">>

\* C8: across any step current_question stays the same, or grows by exactly 1
\* in a transcribe_audio step, or becomes 0 in an upload_resume step.
C8_IndexSteps ==
    [][\/ current_question' = current_question
       \/ /\ current_question' = current_question + 1
          /\ response'.op = "transcribe"
       \/ /\ current_question' = 0
          /\ response'.op = "upload"]_vars

\* the third answer of a session has been recorded and the index has reached 3
C8_Witness ==
    /\ response.op = "transcribe"
    /\ response.status = 200
    /\ current_question = TotalQuestions

\* C9: every recorded answer answers[i] has a question questions[i], and it
\* is the question that was being served when the answer was recorded.
C9_AnswersAligned ==
    \A i \in 1..Len(answers) :
        /\ i <= Len(questions)
        /\ answered_to[i] = i - 1

\* C10: generate_feedback called while answers is empty reports an error,
\* does not call the completion service and leaves the session unchanged.
C10_FeedbackNeedsAnswers ==
    [][(response'.op = "feedback" /\ Len(answers) = 0) =>
          /\ response'.status \notin {0, 200}
          /\ ~response'.llm
          /\ UNCHANGED <<questions, answers, current_question, resume_text,
                         conversation_history>>]_vars

\* generate_feedback has just been refused in a started session with no answer
C10_Witness ==
    /\ response.op = "feedback"
    /\ response.status = 500
    /\ questions # <<>>
    /\ Len(answers) = 0

\* The content of a feedback completion is malformed: it has no brace pair,
\* or the text from its first '{' to its last '}' does not parse, or the
\* parsed object lacks a required field.
MalformedFeedback(content) ==
    LET t == Strip(content)
        a == Find(t, "{")
        b == RFind(t, "}")
    IN  \/ a = 0
        \/ b = 0
        \/ ~JsonLoads(SubSeq(t, a, b)).ok
        \/ JsonLoads(SubSeq(t, a, b)).val.type # "obj"
        \/ \E key \in RequiredKeys : ~HasKey(JsonLoads(SubSeq(t, a, b)).val, key)

\* C11: whenever generate_feedback, called with at least one recorded answer,
\* returns a record, the record has the four required fields and its score
\* is a number from 0 to 100; a completion that is malformed is never
\* returned as a record but reported as an error.
C11_FeedbackRecord ==
    [][\A llm \in Completions(FeedbackTexts) :
          (generate_feedback(llm) /\ answers # <<>>) =>
              /\ response'.status = 200 =>
                    /\ \A key \in RequiredKeys : HasKey(response'.feedback, key)
                    /\ GetKey(response'.feedback, KeyScore).type = "num"
                    /\ GetKey(response'.feedback, KeyScore).n \in 0..100
              /\ (~llm.raised /\ MalformedFeedback(llm.content)) =>
                    response'.status \notin {0, 200}]_vars

\* C12: get_next_question, in a session that has questions and whose
\* current_question is below 3, calls no completion and assigns no session
\* field; what it returns is questions[current_question] with question_number
\* current_question + 1 and total_questions 3 (the one other outcome is the
\* error reported when gTTS raises); two such returns in consecutive steps
\* are the same.
C12_NextQuestionReads ==
    [][(response'.op = "next" /\ questions # <<>>
            /\ current_question < TotalQuestions) =>
          /\ UNCHANGED <<questions, answers, current_question, resume_text,
                         conversation_history>>
          /\ ~response'.llm
          /\ response'.status = 200 =>
                /\ ~response'.completed
                /\ response'.question = questions[current_question + 1]
                /\ response'.question_number = current_question + 1
                /\ response'.total_questions = TotalQuestions
          /\ response'.status # 200 =>
                (response'.status = 500 /\ response'.cause = "tts")
          /\ (response.op = "next" /\ response.status = 200
                  /\ response'.status = 200) => response' = response]_vars

\* get_next_question has just returned the second question, which differs
\* from the first
C12_Witness ==
    /\ response.op = "next"
    /\ response.status = 200
    /\ response.question_number = 2
    /\ response.question = questions[2]
    /\ questions[1] # questions[2]

\* C13: get_next_question called while no upload_resume has succeeded since
\* the process started reports an error, neither a question nor the
\* completion signal, and leaves the session unchanged.
C13_NextBeforeSession ==
    [][(response'.op = "next" /\ ~started) =>
          /\ response'.status \notin {0, 200}
          /\ response'.question = <<>>
          /\ ~response'.completed
          /\ UNCHANGED <<questions, answers, current_question, resume_text,
                         conversation_history>>]_vars

\* get_next_question has just been refused although an upload_resume was
\* attempted (and failed at the completion call) and an answer was recorded
C13_Witness ==
    /\ response.op = "next"
    /\ response.status = 500
    /\ ~started
    /\ resume_text # ""
    /\ answers # <<>>

\* the contents of the turns of h that have the given role, in order
RECURSIVE ContentsOf(_, _)
ContentsOf(h, role) ==
    IF h = <<>> THEN <<>>
    ELSE IF h[1].role = role
         THEN <<h[1].content>> \o ContentsOf(Tail(h), role)
    ELSE ContentsOf(Tail(h), role)

\* C14: in every reachable state the assistant turns of conversation_history
\* are the questions in order, its user turns are the answers in order, its
\* length is len(questions) + len(answers), and (once a session is started)
\* its turns alternate question, answer, question, answer, ... starting with
\* a question.
C14_HistoryInterleaved ==
    /\ ContentsOf(conversation_history, "assistant") = questions
    /\ ContentsOf(conversation_history, "user") = answers
    /\ Len(conversation_history) = Len(questions) + Len(answers)
    /\ questions # <<>> =>
          \A i \in 1..Len(conversation_history) :
              conversation_history[i].role =
                  IF i % 2 = 1 THEN "assistant" ELSE "user"

\* C15: the session reads and writes of a handler are one step, also while
\* other requests are suspended, so no update is lost or duplicated: every
\* successful transcribe_audio adds 1 to current_question, appends exactly
\* its transcript to answers, keeps the questions it found and leaves
\* len(questions) = min(current_question + 1, 3); by induction k overlapping
\* successful calls started at c end with c + k, k new answers and
\* min(c + k + 1, 3) questions.
C15_NoLostUpdate ==
    [][(response'.op = "transcribe" /\ response'.status = 200) =>
          /\ current_question' = current_question + 1
          /\ answers' = Append(answers, response'.transcript)
          /\ SubSeq(questions', 1, Len(questions)) = questions
          /\ Len(questions') =
                IF current_question' + 1 < TotalQuestions
                THEN current_question' + 1 ELSE TotalQuestions
          /\ Len(conversation_history') =
                Len(conversation_history) + 1 + Len(questions') - Len(questions)]_vars

\* two requests were suspended together; both have succeeded and a third is
\* suspended still; the index and the lists stand at 2, 2 and 3
C15_Witness ==
    /\ response.op = "transcribe"
    /\ response.status = 200
    /\ inflight > 0
    /\ answered_to = <<0, 1>>
    /\ current_question = 2
    /\ Len(answers) = 2
    /\ Len(questions) = 3

\* C16: a started session never holds, in answers and conversation_history,
\* the transcript of a request that was posted before the upload_resume that
\* reset the session (a request suspended at its transcription while the
\* session was replaced).
C16_NoResidue == ~(questions # <<>> /\ residue)

\* C17: extraction followed by the suffix step yields, for every text, a
\* question string that ends with '?'.
C17_AlwaysAQuestion ==
    extraction.stage \in {"suffixed", "raised"} =>
        /\ extraction.stage = "suffixed"
        /\ extraction.value.type = "str"
        /\ EndsWithQMark(extraction.value.s)

\* t[i..j] is a quoted substring: two quotes with no quote between them
IsQuoted(t, i, j) ==
    /\ i < j
    /\ t[i] = "\""
    /\ t[j] = "\""
    /\ \A k \in (i + 1)..(j - 1) : t[k] # "\""

\* the quoted substrings of t whose contents end in '?'
QuotedQuestions(t) ==
    {p \in (1..Len(t)) \X (1..Len(t)) :
        /\ IsQuoted(t, p[1], p[2])
        /\ p[2] - p[1] - 1 >= 1
        /\ t[p[2] - 1] = "?"}

\* t[i..k] is a run of characters other than '.', '!', '?', not preceded by
\* another such character, together with the '?' that terminates it
IsQuestionRun(t, i, k) ==
    /\ i < k
    /\ t[k] = "?"
    /\ \A m \in i..(k - 1) : t[m] \notin Terminators
    /\ i = 1 \/ t[i - 1] \in Terminators

QuestionRuns(t) ==
    {p \in (1..Len(t)) \X (1..Len(t)) : IsQuestionRun(t, p[1], p[2])}

\* the member of a set of substrings that starts first
First(P) == CHOOSE p \in P : \A q \in P : p[1] <= q[1]

\* C18: the value extracted is that of the first of four strategies that
\* finds a match: (1) the "question" field of the text parsed as an object;
\* (2) the contents of the first quoted substring ending in '?'; (3) the
\* first run of characters other than '.', '!', '?' that is terminated by
\* '?', trimmed; (4) the whole text, trimmed.
C18_FourStrategies ==
    extraction.stage = "extracted" =>
        LET t == extraction.raw
            d == JsonLoads(t)
        IN  IF d.ok /\ d.val.type = "obj" /\ HasKey(d.val, KeyQuestion)
            THEN extraction.value = GetKey(d.val, KeyQuestion)
            ELSE IF QuotedQuestions(t) # {}
            THEN LET p == First(QuotedQuestions(t))
                 IN  extraction.value = JStr(SubSeq(t, p[1] + 1, p[2] - 1))
            ELSE IF QuestionRuns(t) # {}
            THEN LET p == First(QuestionRuns(t))
                 IN  extraction.value = JStr(Strip(SubSeq(t, p[1], p[2])))
            ELSE extraction.value = JStr(Strip(t))

\* A follow-up generation has failed in the session: the session is started,
\* its index is below 2 and it holds more answers than the index counts
\* (every successful submitAnswer adds one to both, a failing one to answers
\* only).
Stuck ==
    /\ questions # <<>>
    /\ current_question < LastAnswerIndex
    /\ Len(answers) > current_question

\* C19: once a follow-up generation has failed in a session, and until an
\* upload_resume succeeds, questions and current_question do not change,
\* every submitAnswer fails after appending its answer, and
\* get_next_question returns the same question and never the completion
\* signal.
C19_StuckUntilNewSession ==
    [][Stuck =>
          \/ response'.op = "upload" /\ response'.status = 200
          \/ /\ questions' = questions
             /\ current_question' = current_question
             /\ SubmitAnswerCalled =>
                   /\ FailureReported
                   /\ Len(answers') = Len(answers) + 1
             /\ (response'.op = "next" /\ response'.status = 200) =>
                   /\ ~response'.completed
                   /\ response'.question = questions[current_question + 1]]_vars

\* C20: in every reachable state, if questions is non-empty then
\* len(questions) = min(current_question + 1, 3), and if questions is empty
\* then current_question = 0; so questions[current_question] exists whenever
\* questions is non-empty and current_question < 3, and get_next_question
\* never fails on that index.
C20_QuestionsTrackIndex ==
    /\ questions # <<>> =>
          Len(questions) = IF current_question + 1 < TotalQuestions
                           THEN current_question + 1 ELSE TotalQuestions
    /\ questions = <<>> => current_question = 0
    /\ (questions # <<>> /\ current_question < TotalQuestions) =>
          current_question + 1 \in DOMAIN questions
    /\ ~(response.op = "next" /\ response.cause = "index")

\* get_next_question has just served the third question of three
C20_Witness ==
    /\ response.op = "next"
    /\ response.status = 200
    /\ response.question_number = TotalQuestions
    /\ current_question = LastAnswerIndex
    /\ Len(questions) = TotalQuestions

\* C21: generate_feedback returns a record only in states with
\* 1 <= len(answers) <= len(questions); in a state with
\* len(answers) > len(questions) it reports an error, calls no completion
\* and leaves the session unchanged.
C21_FeedbackNeedsPairs ==
    [][response'.op = "feedback" =>
          /\ response'.status = 200 =>
                (1 <= Len(answers) /\ Len(answers) <= Len(questions))
          /\ Len(answers) > Len(questions) =>
                /\ response'.status \notin {0, 200}
                /\ ~response'.llm
                /\ UNCHANGED <<questions, answers, current_question,
                               resume_text, conversation_history>>]_vars

\* generate_feedback has just been refused after a fourth answer was
\* recorded in a session of three questions
C21_Witness ==
    /\ response.op = "feedback"
    /\ response.status = 500
    /\ response.cause = "pairing"
    /\ Len(questions) = TotalQuestions
    /\ Len(answers) = TotalQuestions + 1

\* C22: with one client following app.py as the only caller and no
\* collaborator call failing, current_question never exceeds 3 and
\* len(answers) <= len(questions) always holds (so that the interview can
\* reach completion after exactly 3 submitted answers).
C22_SingleClientSafe ==
    /\ current_question <= TotalQuestions
    /\ Len(answers) <= Len(questions)

=============================================================================
